---- MODULE Spec2Model ----
(***************************************************************************)
(* The YouTube Trends24 scraper of 02_trend_farmer/notebook.ipynb: a       *)
(* LangGraph workflow START -> fetch_page -> extract_videos -> END over a  *)
(* WorkflowState dictionary.                                               *)
(*                                                                         *)
(* Python values are modelled as follows.  A text is a tuple of one        *)
(* character strings.  An Optional value is the empty tuple (None, or an   *)
(* element / attribute / local that is absent) or a one element tuple      *)
(* holding the value.  The parsed page (the BeautifulSoup tree of          *)
(* raw_html) is a record of the three landmarks the code looks up and of   *)
(* the li.video-item entries that find_all returns.                        *)
(***************************************************************************)
EXTENDS Integers, Sequences, FiniteSets, TLC

VARIABLES
    pc,               \* position of the run in the graph
    url,              \* WorkflowState["url"]
    raw_html,         \* WorkflowState["raw_html"]
    trending_videos,  \* WorkflowState["trending_videos"]
    error,            \* WorkflowState["error"]
    timestamp,        \* WorkflowState["timestamp"]
    video_items,      \* local of extract_videos_node: the sliced entries
    i,                \* number of entries the for loop has gone through
    videos,           \* local of extract_videos_node
    rank,             \* local of extract_videos_node (unbound: None)
    origin,           \* history: document position each element of videos came from
    calls,            \* history: how many times extract_videos_node was entered
    first,            \* history: what the first call of extract_videos_node returned
    gets              \* history: how many GET requests were issued

vars == <<pc, url, raw_html, trending_videos, error, timestamp,
          video_items, i, videos, rank, origin, calls, first, gets>>

----------------------------------------------------------------------------
(* Bounds of the model *)

\* every document of at most MaxLen entries, of every kind, is explored
MaxLen == 2
\* every document of at most MaxMid entries of the core kinds is explored
MaxMid == 4
\* the longest documents have MaxEntries entries
MaxEntries == 25

(* Program constant *)
\* video_items[:20]
TopN == 20

----------------------------------------------------------------------------
(* Optional values and texts *)

None == <<>>
Some(x) == <<x>>
Val(o) == o[1]

\* Python truthiness of an Optional[str]: None and "" are falsy
Truthy(o) == o # None /\ Val(o) # <<>>

Min(a, b) == IF a < b THEN a ELSE b

DigitChars == <<"0", "1", "2", "3", "4", "5", "6", "7", "8", "9">>

IsDigit(c) == \E d \in 1..10 : DigitChars[d] = c

DigitVal(c) == (CHOOSE d \in 1..10 : DigitChars[d] = c) - 1

\* str(n) for n >= 0
RECURSIVE Str(_)
Str(n) == IF n < 10 THEN <<DigitChars[n + 1]>>
          ELSE Str(n \div 10) \o <<DigitChars[(n % 10) + 1]>>

\* text.strip(): leading and trailing blanks removed
RECURSIVE LStrip(_)
LStrip(t) == IF t # <<>> /\ Head(t) = " " THEN LStrip(Tail(t)) ELSE t

RECURSIVE RStrip(_)
RStrip(t) == IF t # <<>> /\ t[Len(t)] = " " THEN RStrip(SubSeq(t, 1, Len(t) - 1)) ELSE t

Strip(t) == RStrip(LStrip(t))

\* Tag.get_text(strip=True) of an element holding one text node
GetText(t) == Strip(t)

\* the digits of an int() literal after its sign
Unsigned(t) == IF t # <<>> /\ Head(t) \in {"+", "-"} THEN Tail(t) ELSE t

RECURSIVE DigitsVal(_)
DigitsVal(t) == IF t = <<>> THEN 0
                ELSE 10 * DigitsVal(SubSeq(t, 1, Len(t) - 1)) + DigitVal(t[Len(t)])

\* int(text) returns (does not raise ValueError)
IsInt(t) ==
    LET u == Unsigned(Strip(t))
    IN  u # <<>> /\ \A k \in 1..Len(u) : IsDigit(u[k])

\* int(text), where it returns
IntOf(t) ==
    LET s == Strip(t)
        v == DigitsVal(Unsigned(s))
    IN  IF s # <<>> /\ Head(s) = "-" THEN 0 - v ELSE v

----------------------------------------------------------------------------
(* The pages the GET can return *)

TheUrl == <<"https://youtube.trends24.in/">>

ChannelText == <<"C", "h">>

FullLink(p) ==
    [href      |-> Some(<<"u">> \o Str(p)),
     thumbnail |-> Some([src |-> Some(<<"i">> \o Str(p))]),
     title     |-> Some(<<" ", "T">> \o Str(p) \o <<" ">>),
     info_p    |-> Some(<<<<"b", "y">>, ChannelText>>)]

Kinds == {"ok", "pos", "bad", "empty", "zero", "neg", "nolink", "nohref",
          "emptyhref", "bad_nolink", "bare", "onespan", "nospan", "threespan"}

\* the li.video-item of kind k at document position p
Entry(k, p) ==
    CASE k = "ok"         -> [rank_span |-> None, video_link |-> Some(FullLink(p))]
      [] k = "pos"        -> [rank_span |-> Some(<<" ">> \o Str(p)), video_link |-> Some(FullLink(p))]
      [] k = "bad"        -> [rank_span |-> Some(<<"x">>), video_link |-> Some(FullLink(p))]
      [] k = "empty"      -> [rank_span |-> Some(<<>>), video_link |-> Some(FullLink(p))]
      [] k = "zero"       -> [rank_span |-> Some(<<"0">>), video_link |-> Some(FullLink(p))]
      [] k = "neg"        -> [rank_span |-> Some(<<"-", "1">>), video_link |-> Some(FullLink(p))]
      [] k = "nolink"     -> [rank_span |-> None, video_link |-> None]
      [] k = "bad_nolink" -> [rank_span |-> Some(<<"#", "1">>), video_link |-> None]
      [] k = "nohref"     -> [rank_span |-> None,
                              video_link |-> Some([FullLink(p) EXCEPT !.href = None])]
      [] k = "emptyhref"  -> [rank_span |-> None,
                              video_link |-> Some([FullLink(p) EXCEPT !.href = Some(<<>>)])]
      [] k = "bare"       -> [rank_span |-> None,
                              video_link |-> Some([href |-> Some(<<"u">> \o Str(p)),
                                                   thumbnail |-> None,
                                                   title |-> None,
                                                   info_p |-> None])]
      [] k = "onespan"    -> [rank_span |-> None,
                              video_link |-> Some([FullLink(p) EXCEPT
                                                   !.thumbnail = Some([src |-> None]),
                                                   !.info_p = Some(<<ChannelText>>)])]
      [] k = "nospan"     -> [rank_span |-> None,
                              video_link |-> Some([FullLink(p) EXCEPT !.info_p = Some(<<>>)])]
      [] k = "threespan"  -> [rank_span |-> None,
                              video_link |-> Some([FullLink(p) EXCEPT
                                  !.info_p = Some(<<<<"b", "y">>, <<" ", "N", " ">>, ChannelText>>)])]

Items(ks) == [p \in 1..Len(ks) |-> Entry(ks[p], p)]

\* the kinds that decide whether and how an entry is emitted
CoreKinds == {"ok", "pos", "bad", "nolink", "emptyhref"}

\* every sequence of kinds of length at most MaxLen
ShortKindSeqs == UNION {[1..n -> Kinds] : n \in 0..MaxLen}

\* every sequence of core kinds of length at most MaxMid
MidKindSeqs == UNION {[1..n -> CoreKinds] : n \in 0..MaxMid}

\* lists around and beyond the cut of video_items[:20]: labelled or unlabelled entries
\* throughout, at most one entry of another kind
LongKindSeqs ==
    {[p \in 1..n |-> IF p = q THEN k ELSE b] :
        n \in (TopN - 1)..MaxEntries, b \in {"ok", "pos"}, q \in 0..MaxEntries, k \in CoreKinds}

\* pages on which a landmark may be missing
BrokenPages ==
    {[header |-> h, section |-> s, list |-> l, items |-> Items(ks)] :
        h \in BOOLEAN, s \in BOOLEAN, l \in BOOLEAN,
        ks \in {<<>>, <<"ok">>, <<"bad", "ok">>, <<"nolink", "pos">>}}

Pages ==
    {[header |-> TRUE, section |-> TRUE, list |-> TRUE, items |-> Items(ks)] :
        ks \in ShortKindSeqs \cup MidKindSeqs \cup LongKindSeqs}
    \cup BrokenPages

\* str(e) of what requests.get / raise_for_status raise
FetchExceptions == {<<>>, <<"ConnectionError">>, <<"ReadTimeout">>, <<"404 Client Error">>}

\* datetime.now().isoformat(): one fetch per run, one reading of the clock
Times == {<<"2025-06-30T21:06:50.499310">>}

----------------------------------------------------------------------------
(* Messages *)

FetchError(e) == <<"Failed to fetch page: ">> \o e

HeaderError == <<"Could not find the 'All' section header">>

SectionError == <<"Could not find the 'All' section container">>

ListError == <<"Could not find video list in 'All' section">>

ExtractError(e) == <<"Failed to extract videos: ">> \o e

\* str() of the exceptions the outer handler of extract_videos_node can see
NoMarkup == <<"Incoming markup is of an invalid type: None.">>

UnboundRank == <<"cannot access local variable 'rank' where it is not associated with a value">>

----------------------------------------------------------------------------
(* initial_state and app.invoke *)

Init ==
    /\ pc = "START"
    /\ url = TheUrl
    /\ raw_html = None
    /\ trending_videos = <<>>
    /\ error = None
    /\ timestamp = None
    /\ video_items = <<>>
    /\ i = 0
    /\ videos = <<>>
    /\ rank = None
    /\ origin = <<>>
    /\ calls = 0
    /\ first = None
    /\ gets = 0

Locals == <<video_items, i, videos, rank, origin>>

\* workflow.add_edge(START, "fetch_page")
Invoke ==
    /\ pc = "START"
    /\ pc' = "fetch_page"
    /\ UNCHANGED <<url, raw_html, trending_videos, error, timestamp, Locals, calls, first, gets>>

----------------------------------------------------------------------------
(* fetch_page_node *)

\* variant: the edge from fetch_page goes to END
AfterFetchSkipsExtract == "END"

\* workflow.add_edge("fetch_page", "extract_videos")
AfterFetch == "extract_videos"

\* the GET returned a 2xx response: {"raw_html": ..., "timestamp": ...}
FetchOk ==
    /\ pc = "fetch_page"
    /\ \E page \in Pages, t \in Times :
          /\ raw_html' = Some(page)
          /\ timestamp' = Some(t)
    /\ gets' = gets + 1
    /\ pc' = AfterFetch
    /\ UNCHANGED <<url, trending_videos, error, Locals, calls, first>>

\* variant: the message is str(e) alone
FetchFailureBare(e) == Some(e)

\* what the except branch stores under "error"
FetchFailure(e) == Some(FetchError(e))

\* requests.get or raise_for_status raised: {"error": ..., "timestamp": ...}
FetchFail ==
    /\ pc = "fetch_page"
    /\ \E e \in FetchExceptions, t \in Times :
          /\ error' = FetchFailure(e)
          /\ timestamp' = Some(t)
    /\ gets' = gets + 1
    /\ pc' = AfterFetch
    /\ UNCHANGED <<url, raw_html, trending_videos, Locals, calls, first>>

----------------------------------------------------------------------------
(* extract_videos_node *)

\* variant: the guard on the incoming error left out
ShortCircuitNever(err) == FALSE

\* if state.get("error")
ShortCircuit(err) == Truthy(err)

\* variant: the list outlives the call (bound outside the function)
LeftoverVideos == videos

\* videos = []
NewVideos == <<>>

\* variant: the slice left out
SliceAll(items) == items

\* variant: the entries without a link are dropped before the slice
SliceKept(items) ==
    LET kept == SelectSeq(items, LAMBDA item : item.video_link # None)
    IN  SubSeq(kept, 1, Min(Len(kept), TopN))

\* video_items[:20]
Slice(items) == SubSeq(items, 1, Min(Len(items), TopN))

\* variant: the returned dictionary always carries the "error" key, None included
ReturnClearing(err, vids) ==
    /\ error' = err
    /\ trending_videos' = vids
    /\ first' = IF first = None
                THEN Some([error |-> err, trending_videos |-> vids])
                ELSE first
    /\ pc' = "END"

\* the node returns: its dictionary is merged into the state.
\* err = None stands for a dictionary without the "error" key.
Return(err, vids) ==
    /\ error' = IF err = None THEN error ELSE err
    /\ trending_videos' = vids
    /\ first' = IF first = None
                THEN Some([error |-> IF err = None THEN error ELSE err, trending_videos |-> vids])
                ELSE first
    /\ pc' = "END"

\* variant: the list is looked up in the whole document, not in the header's section
LandmarkErrorNoSection(soup) ==
    IF ~soup.header THEN Some(HeaderError)
    ELSE IF ~soup.list THEN Some(ListError)
    ELSE None

\* lines 144-168: the message of the first landmark that is missing, None when all are found
LandmarkError(soup) ==
    IF ~soup.header THEN Some(HeaderError)
    ELSE IF ~soup.section THEN Some(SectionError)
    ELSE IF ~soup.list THEN Some(ListError)
    ELSE None

\* lines 137-171: the short circuit, the parse and the three landmarks
ExtractEnter ==
    /\ pc = "extract_videos"
    /\ calls' = calls + 1
    /\ UNCHANGED <<url, raw_html, timestamp, gets>>
    /\ IF ShortCircuit(error)
       THEN /\ Return(None, <<>>)
            /\ UNCHANGED Locals
       ELSE IF raw_html = None
       THEN \* BeautifulSoup(None, ...) raises: the outer handler
            /\ Return(Some(ExtractError(NoMarkup)), <<>>)
            /\ UNCHANGED Locals
       ELSE LET soup == Val(raw_html)
            IN  IF LandmarkError(soup) # None
                THEN /\ Return(LandmarkError(soup), <<>>)
                     /\ videos' = NewVideos
                     /\ UNCHANGED <<video_items, i, rank, origin>>
                ELSE /\ videos' = NewVideos
                     /\ origin' = <<>>
                     /\ video_items' = Slice(soup.items)
                     /\ i' = 0
                     /\ pc' = "for_items"
                     /\ UNCHANGED <<rank, trending_videos, error, first>>

\* lines 176-183: int() of the rank label raises ValueError
RankRaises(item) ==
    item.rank_span # None /\ ~IsInt(GetText(Val(item.rank_span)))

\* variant: the fallback is the position of the entry in the list
RankOfRawPosition(item, vids) ==
    IF item.rank_span # None
    THEN IntOf(GetText(Val(item.rank_span)))
    ELSE i + 1

\* variant: the fallback counts from 0
RankOfZeroBased(item, vids) ==
    IF item.rank_span # None
    THEN IntOf(GetText(Val(item.rank_span)))
    ELSE Len(vids)

\* lines 179-183: the value assigned to rank
RankOf(item, vids) ==
    IF item.rank_span # None
    THEN IntOf(GetText(Val(item.rank_span)))
    ELSE Len(vids) + 1

\* line 222: formatting {rank} in the handler's message raises when rank is unbound
HandlerRaises(r) == r = None

\* variant: a placeholder instead of the empty default
HrefOfPlaceholder(link) == IF link.href = None THEN <<"#">> ELSE Val(link.href)

\* line 190: video_link.get("href", "")
HrefOf(link) == IF link.href = None THEN <<>> ELSE Val(link.href)

\* lines 193-194
ThumbnailOf(link) ==
    IF link.thumbnail = None THEN <<>>
    ELSE IF Val(link.thumbnail).src = None THEN <<>> ELSE Val(Val(link.thumbnail).src)

\* lines 197-198
TitleOf(link) ==
    IF link.title = None THEN <<"N", "o", " ", "t", "i", "t", "l", "e">>
    ELSE GetText(Val(link.title))

\* variant: the first span is taken
ChannelOfFirstSpan(link) ==
    IF link.info_p = None THEN <<>>
    ELSE LET channel_spans == Val(link.info_p)
         IN  IF Len(channel_spans) >= 2 THEN GetText(channel_spans[1]) ELSE <<>>

\* lines 201-208
ChannelOf(link) ==
    IF link.info_p = None THEN <<>>
    ELSE LET channel_spans == Val(link.info_p)
         IN  IF Len(channel_spans) >= 2 THEN GetText(channel_spans[2]) ELSE <<>>

\* lines 211-217
TrendingVideo(link, r) ==
    [title         |-> TitleOf(link),
     channel       |-> ChannelOf(link),
     thumbnail_url |-> ThumbnailOf(link),
     video_url     |-> HrefOf(link),
     rank          |-> r]

\* lines 186-188: the entry is kept
HasLink(item) == item.video_link # None

\* lines 173-223: one pass of the for loop
ExtractItem ==
    /\ pc = "for_items"
    /\ i < Len(video_items)
    /\ UNCHANGED <<url, raw_html, timestamp, video_items, calls, gets>>
    /\ LET item == video_items[i + 1]
       IN  IF RankRaises(item)
           THEN IF HandlerRaises(rank)
                THEN \* the exception of the handler reaches the outer handler
                     /\ Return(Some(ExtractError(UnboundRank)), <<>>)
                     /\ UNCHANGED <<i, videos, rank, origin>>
                ELSE \* logged, continue
                     /\ i' = i + 1
                     /\ UNCHANGED <<pc, trending_videos, error, first, videos, rank, origin>>
           ELSE /\ rank' = Some(RankOf(item, videos))
                /\ i' = i + 1
                /\ UNCHANGED <<pc, trending_videos, error, first>>
                /\ IF HasLink(item)
                   THEN /\ videos' = Append(videos, TrendingVideo(Val(item.video_link), Val(rank')))
                        /\ origin' = Append(origin, i + 1)
                   ELSE UNCHANGED <<videos, origin>>

\* line 225: return {"trending_videos": videos}
ExtractReturn ==
    /\ pc = "for_items"
    /\ i = Len(video_items)
    /\ Return(None, videos)
    /\ UNCHANGED <<url, raw_html, timestamp, Locals, calls, gets>>

----------------------------------------------------------------------------
(* The workflow: one app.invoke *)

Next ==
    \/ Invoke
    \/ FetchOk
    \/ FetchFail
    \/ ExtractEnter
    \/ ExtractItem
    \/ ExtractReturn

Spec == Init /\ [][Next]_vars

\* the pages of the runs whose termination is checked: the short lists, the pages
\* lacking a landmark, and two lists longer than the cut
BriefPages ==
    {[header |-> TRUE, section |-> TRUE, list |-> TRUE, items |-> Items(ks)] :
        ks \in ShortKindSeqs \cup {[p \in 1..(TopN + 1) |-> "ok"],
                                   [p \in 1..(TopN + 1) |-> IF p = 2 THEN "bad" ELSE "pos"]}}
    \cup BrokenPages

\* fetch_page_node returning one of these pages
FetchOkBrief ==
    /\ pc = "fetch_page"
    /\ \E page \in BriefPages, t \in Times :
          /\ raw_html' = Some(page)
          /\ timestamp' = Some(t)
    /\ gets' = gets + 1
    /\ pc' = AfterFetch
    /\ UNCHANGED <<url, trending_videos, error, Locals, calls, first>>

NextBrief ==
    \/ Invoke
    \/ FetchOkBrief
    \/ FetchFail
    \/ ExtractEnter
    \/ ExtractItem
    \/ ExtractReturn

\* app.invoke runs each node to its return: the GET returns or raises within its
\* timeout and the loop goes through a finite list
SpecFair == Init /\ [][NextBrief]_vars /\ WF_vars(NextBrief)

----------------------------------------------------------------------------
(* extract_videos_node called a second time on the state it was first given *)

\* a new call on the same raw_html with no error: a new frame, whose locals are unbound
\* (videos is bound by line 142 before it is read)
ExtractAgain ==
    /\ pc = "END"
    /\ calls = 1
    /\ raw_html # None
    /\ pc' = "extract_videos"
    /\ error' = None
    /\ trending_videos' = <<>>
    /\ video_items' = <<>>
    /\ i' = 0
    /\ rank' = None
    /\ origin' = <<>>
    /\ UNCHANGED <<url, raw_html, timestamp, videos, calls, first, gets>>

NextTwice ==
    \/ Next
    \/ ExtractAgain

SpecTwice == Init /\ [][NextTwice]_vars

----------------------------------------------------------------------------
(* Vocabulary of the properties *)

\* the fetch succeeded and the page has the three landmarks: the for loop is reached
FullPage ==
    /\ raw_html # None
    /\ Val(raw_html).header /\ Val(raw_html).section /\ Val(raw_html).list

\* the li.video-item entries of the fetched page, in document order
PageItems == Val(raw_html).items

\* the document positions of the records of the result
Emitted == {origin[k] : k \in 1..Len(trending_videos)}

\* the run is over
Ended == pc = "END"

\* the entry at position p can be extracted without an exception and has a link
WellFormed(p) ==
    /\ PageItems[p].video_link # None
    /\ PageItems[p].rank_span # None => IsInt(Val(PageItems[p].rank_span))

\* every record accumulated so far comes from the entry origin says
Labelled(k) == PageItems[origin[k]].rank_span # None

----------------------------------------------------------------------------
(* C1 *)

\* C1: an exception while extracting one entry, the first of the list included, skips
\* only that entry: the run ends with no error and with every later well-formed entry
\* of the first 20 in the result.
C1_ItemFailureSkipsOnlyItem ==
    (Ended /\ FullPage) =>
        \A q \in 1..Len(video_items) :
            (video_items[q].rank_span # None /\ ~IsInt(Val(video_items[q].rank_span))) =>
                /\ error = None
                /\ \A p \in (q + 1)..Len(video_items) : WellFormed(p) => p \in Emitted

----------------------------------------------------------------------------
(* C2 *)

\* C2: every record's rank is the number of its numeric rank label, and one more
\* than the number of records accumulated before it when the entry has no label;
\* no record comes from an entry whose label is not numeric.
C2_RankFallback ==
    FullPage =>
        \A k \in 1..Len(videos) :
            LET item == PageItems[origin[k]]
            IN  IF item.rank_span = None
                THEN videos[k].rank = (k - 1) + 1
                ELSE /\ IsInt(Val(item.rank_span))
                     /\ videos[k].rank = IntOf(Val(item.rank_span))

\* an unlabelled entry emitted after an entry that was dropped: its rank is not its position
C2_Witness ==
    /\ Ended /\ FullPage
    /\ \E k \in 1..Len(trending_videos) :
          /\ ~Labelled(k)
          /\ origin[k] > k
          /\ trending_videos[k].rank = k
    /\ \E k \in 1..Len(trending_videos) : Labelled(k)

----------------------------------------------------------------------------
(* C3 *)

\* C3 as stated: after a successful fetch every record has a non-empty video_url and
\* there are at most 20 records.
C3_NonEmptyVideoUrl ==
    (Ended /\ raw_html # None) =>
        /\ Len(trending_videos) <= TopN
        /\ \A k \in 1..Len(trending_videos) : trending_videos[k].video_url # <<>>

\* C3 amended: after a successful fetch there are at most 20 records, each from an
\* entry that has a link element, and a record's video_url is empty exactly when
\* that link has no href attribute or an empty one.
C3_VideoUrlIsHref ==
    (Ended /\ raw_html # None) =>
        /\ Len(trending_videos) <= TopN
        /\ \A k \in 1..Len(trending_videos) :
              LET item == PageItems[origin[k]]
              IN  /\ item.video_link # None
                  /\ LET href == Val(item.video_link).href
                     IN  IF href = None \/ href = Some(<<>>)
                         THEN trending_videos[k].video_url = <<>>
                         ELSE trending_videos[k].video_url = Val(href)

\* 20 records of a longer list, one of them with an empty video_url
C3_Witness ==
    /\ Ended /\ raw_html # None
    /\ Len(trending_videos) = TopN
    /\ Len(PageItems) > TopN
    /\ \E k \in 1..Len(trending_videos) : trending_videos[k].video_url = <<>>

----------------------------------------------------------------------------
(* C4 *)

\* C4: when the fetch failed, the extract stage keeps the error of the fetch stage,
\* which is non-empty, returns no videos and ends at once: it binds no local, so it
\* parses nothing and looks for no landmark.
C4_FetchFailureShortCircuits ==
    [][(pc = "extract_videos" /\ raw_html = None) =>
          /\ Truthy(error)
          /\ \E e \in FetchExceptions : error = Some(<<"Failed to fetch page: ">> \o e)
          /\ error' = error
          /\ trending_videos' = <<>>
          /\ pc' = "END"
          /\ UNCHANGED <<video_items, i, videos, rank>>]_vars

\* a run whose fetch failed is over
C4_Witness ==
    /\ Ended
    /\ calls = 1
    /\ raw_html = None
    /\ timestamp # None
    /\ Truthy(error)
    /\ trending_videos = <<>>

----------------------------------------------------------------------------
(* C5 *)

\* C5: after a successful fetch of a page that lacks the header, its section or the
\* list, the run ends with no videos and a non-empty error, the loop has looked at no
\* entry, and the timestamp of the fetch is still there.
C5_MissingLandmark ==
    (Ended /\ raw_html # None /\ ~FullPage) =>
        /\ trending_videos = <<>>
        /\ Truthy(error)
        /\ error \in {Some(HeaderError), Some(SectionError), Some(ListError)}
        /\ i = 0 /\ video_items = <<>> /\ rank = None /\ videos = <<>>
        /\ timestamp # None

\* a page with entries whose header is in no section container
C5_Witness ==
    /\ Ended
    /\ raw_html # None
    /\ Val(raw_html).header /\ ~Val(raw_html).section /\ Val(raw_html).list
    /\ PageItems # <<>>
    /\ error = Some(SectionError)
    /\ timestamp # None

----------------------------------------------------------------------------
(* C6 *)

\* C6: no record comes from an entry without a link element, and the run never stops
\* at such an entry: it sets no error there and goes on to the next entry.
C6_LinklessEntrySkipped ==
    FullPage =>
        /\ \A k \in 1..Len(origin) : PageItems[origin[k]].video_link # None
        /\ (Ended /\ i < Len(video_items) /\ video_items[i + 1].video_link = None) =>
              error = None

----------------------------------------------------------------------------
(* C7 *)

\* the positions of the entries of the page that have a link element
Linked == {p \in 1..Len(PageItems) : PageItems[p].video_link # None}

\* there are no rank labels on the page
Unlabelled == \A p \in 1..Len(PageItems) : PageItems[p].rank_span = None

\* C7: a page of n <= 20 entries without rank labels, k of them without a link, gives
\* n - k records, the entries with a link in document order, ranked 1..n-k, and no error.
C7_UnlabelledLinkless ==
    (Ended /\ FullPage /\ Len(PageItems) <= TopN /\ Unlabelled) =>
        /\ error = None
        /\ Len(trending_videos) = Len(PageItems) - Cardinality({p \in 1..Len(PageItems) : p \notin Linked})
        /\ Emitted = Linked
        /\ \A k \in 1..Len(trending_videos) :
              /\ trending_videos[k].rank = k
              /\ k > 1 => origin[k - 1] < origin[k]

\* three entries, one of them without a link: two records
C7_Witness ==
    /\ Ended /\ FullPage /\ Unlabelled
    /\ Len(PageItems) = 3
    /\ Cardinality(Linked) = 2
    /\ 1 \notin Linked
    /\ Len(trending_videos) = 2
    /\ trending_videos[1].rank = 1 /\ trending_videos[2].rank = 2
    /\ error = None

----------------------------------------------------------------------------
(* C8 *)

\* every entry has a link and is unlabelled or labelled with its own position
AllInOrder ==
    \A p \in 1..Len(PageItems) :
        /\ PageItems[p].video_link # None
        /\ \/ PageItems[p].rank_span = None
           \/ Strip(Val(PageItems[p].rank_span)) = Str(p)

\* C8: a list of n such entries gives min(n, 20) records: its first min(n, 20)
\* entries in document order, ranked 1..min(n, 20).
C8_FirstTwenty ==
    (Ended /\ FullPage /\ AllInOrder) =>
        /\ error = None
        /\ Len(trending_videos) = Min(Len(PageItems), TopN)
        /\ \A k \in 1..Len(trending_videos) :
              /\ origin[k] = k
              /\ trending_videos[k].rank = k

\* 25 labelled entries: 20 records
C8_Witness ==
    /\ Ended /\ FullPage /\ AllInOrder
    /\ Len(PageItems) = 25
    /\ PageItems[25].rank_span # None
    /\ Len(trending_videos) = 20
    /\ trending_videos[20].rank = 20

----------------------------------------------------------------------------
(* C9 *)

\* C9: a record's channel is the text of the second font-medium span of the info
\* paragraph when there is a paragraph with two spans or more, and empty otherwise;
\* an entry that has a link and whose label does not raise is emitted whatever its
\* paragraph holds.
C9_Channel ==
    FullPage =>
        /\ \A k \in 1..Len(videos) :
              LET info_p == Val(PageItems[origin[k]].video_link).info_p
              IN  IF info_p # None /\ Len(Val(info_p)) >= 2
                  THEN videos[k].channel = Strip(Val(info_p)[2])
                  ELSE videos[k].channel = <<>>
        /\ pc \in {"for_items", "END"} =>
              \A p \in 1..i : WellFormed(p) => \E k \in 1..Len(origin) : origin[k] = p

\* a record from an entry whose paragraph has one span only, after one with three
C9_Witness ==
    /\ Ended /\ FullPage
    /\ Len(trending_videos) = 2
    /\ Val(PageItems[1].video_link).info_p # None
    /\ Len(Val(Val(PageItems[1].video_link).info_p)) = 3
    /\ trending_videos[1].channel = <<"N">>
    /\ Val(PageItems[2].video_link).info_p = Some(<<ChannelText>>)
    /\ trending_videos[2].channel = <<>>

----------------------------------------------------------------------------
(* C10 *)

\* C10: a second call of extract_videos_node on the same raw_html with no error
\* returns what the first call returned: the same error and the same videos in order.
C10_SecondCallSame ==
    (Ended /\ calls = 2) =>
        /\ first # None
        /\ error = Val(first).error
        /\ trending_videos = Val(first).trending_videos

\* a second call that returned several records
C10_Witness ==
    /\ Ended /\ calls = 2
    /\ Len(trending_videos) >= 2
    /\ trending_videos[1].rank # trending_videos[2].rank
    /\ error = None

\* a second call that stopped at the first entry, as the first call did
C10_WitnessError ==
    /\ Ended /\ calls = 2
    /\ error = Some(ExtractError(UnboundRank))

----------------------------------------------------------------------------
(* C11 *)

\* C11: the fetch stage always returns to the graph with the timestamp set: either
\* raw_html is set and error is left unset, or error is a non-empty message and
\* raw_html is left unset.  It issues the only GET of the run: one request, no retry.
C11_FetchOutcome ==
    [][/\ IF pc = "fetch_page"
          THEN /\ pc' = "extract_videos"
               /\ timestamp' # None
               /\ gets = 0 /\ gets' = 1
               /\ \/ raw_html' # None /\ error = None /\ error' = None
                  \/ raw_html = None /\ raw_html' = None /\ Truthy(error')
          ELSE gets' = gets
       /\ pc' = "END" => gets' = 1]_vars

\* the fetch stage has just reported a failure
C11_Witness ==
    /\ pc = "extract_videos"
    /\ calls = 0
    /\ gets = 1
    /\ timestamp # None
    /\ raw_html = None
    /\ error = Some(<<"Failed to fetch page: ">>)

----------------------------------------------------------------------------
(* C12 *)

\* C12: within a run url never changes, and raw_html, timestamp and error keep the
\* value they were first given; the extract stage leaves raw_html and timestamp alone
\* and writes error only when it was unset, so error is assigned at most once.
C12_AppendOnly ==
    [][/\ url' = url
       /\ raw_html # None => raw_html' = raw_html
       /\ timestamp # None => timestamp' = timestamp
       /\ error # None => error' = error
       /\ pc \in {"extract_videos", "for_items"} =>
             /\ raw_html' = raw_html
             /\ timestamp' = timestamp]_vars

\* a run in which the fetch set raw_html and timestamp and the loop set error
C12_Witness ==
    /\ Ended
    /\ url = TheUrl
    /\ raw_html # None
    /\ timestamp # None
    /\ calls = 1
    /\ error = Some(ExtractError(UnboundRank))

----------------------------------------------------------------------------
(* C13 *)

\* the moves of a run from stage to stage (the loop is part of the extract stage)
StageMoves ==
    {<<"START", "fetch_page">>, <<"fetch_page", "extract_videos">>,
     <<"extract_videos", "for_items">>, <<"extract_videos", "END">>,
     <<"for_items", "END">>}

\* C13: a run goes START, fetch, extract, END: the extract stage is entered once, after
\* the one fetch has returned, no stage is entered twice, and every run reaches END
\* with trending_videos set to what the extract stage returned.
C13_LinearRun ==
    /\ [][/\ pc' # pc => <<pc, pc'>> \in StageMoves
          /\ calls' # calls => (pc = "extract_videos" /\ calls = 0 /\ gets = 1 /\ timestamp # None)
          /\ gets' # gets => (pc = "fetch_page" /\ gets = 0 /\ calls = 0)]_vars
    /\ [](Ended => /\ calls = 1 /\ gets = 1
                   /\ first # None
                   /\ trending_videos = Val(first).trending_videos)
    /\ <>Ended

\* a run that went through the loop 20 times is over
C13_Witness ==
    /\ Ended
    /\ calls = 1 /\ gets = 1
    /\ i = TopN
    /\ first # None
    /\ Len(Val(first).trending_videos) = TopN

\* a run whose fetch failed reaches END too
C13_WitnessFailed ==
    /\ Ended
    /\ calls = 1 /\ gets = 1
    /\ raw_html = None
    /\ first = Some([error |-> error, trending_videos |-> <<>>])

----------------------------------------------------------------------------
(* C14 *)

\* C14: every record of the result has a rank of at least 1, whether the rank was
\* assigned by the fallback or parsed from a numeric label such as 0 or -1.
C14_RankAtLeastOne ==
    FullPage => \A k \in 1..Len(trending_videos) : trending_videos[k].rank >= 1

----------------------------------------------------------------------------
(* C15 *)

\* the entries among the first 20 of the page that give no record
Dropped == {p \in 1..Min(Len(PageItems), TopN) : ~WellFormed(p)}

\* C15: no record comes from an entry at position 21 or later, and the entries
\* dropped among the first 20 are not made up for: with j of them dropped the result
\* has at most 20 - j records, and exactly min(n, 20) - j when the run ends without error.
C15_TruncateBeforeDrop ==
    FullPage =>
        /\ \A k \in 1..Len(origin) : origin[k] <= TopN
        /\ Ended => Len(trending_videos) + Cardinality(Dropped) <= TopN
        /\ (Ended /\ error = None) =>
              Len(trending_videos) = Min(Len(PageItems), TopN) - Cardinality(Dropped)

\* a list of more than 20 entries whose 21st is well formed and one of whose first 20
\* has no link: 19 records
C15_Witness ==
    /\ Ended /\ FullPage
    /\ error = None
    /\ Len(PageItems) > TopN
    /\ WellFormed(TopN + 1)
    /\ \E p \in 1..TopN : Dropped = {p} /\ PageItems[p].video_link = None
    /\ Len(trending_videos) = TopN - 1

====
